---------------------------- MODULE Spec2Model ----------------------------
(***************************************************************************)
(* A model of prepare_data2.py: one call of files_to_tfrecord_dynamic      *)
(* (read the files, build the vocabulary, split, filter, write the         *)
(* records file, dump the vocabulary), followed by a consumer reading the  *)
(* records back with parse_seq.                                            *)
(*                                                                         *)
(* A text is a sequence of one-character strings.  The regular expression  *)
(* is restricted to a literal, non-empty delimiter.  Console output and    *)
(* the optional plot change none of the modelled state and are left out.   *)
(***************************************************************************)
EXTENDS Integers, Sequences, FiniteSets, TLC

(* ------------------------------ bounds --------------------------------- *)

\* at most this many input files
MaxFiles == 2

\* at most this many characters in all input files together
MaxCorpusLen == 3

\* the maxlen argument ranges over -1 .. MaxLenArg
MaxLenArg == 4

\* tf.int32, the type parse_seq casts to, ends here
Int32Max == 2147483647

\* the characters the input files are written in
Alphabet == {"a", ","}

\* the literal delimiters the regex argument ranges over
Delimiters == {<<",">>, <<",", ",">>}

(* ------------------------- helpers on sequences ------------------------ *)

Range(s) == {s[k] : k \in DOMAIN s}

Min2(a, b) == IF a < b THEN a ELSE b

\* all sequences over S of length at most n
SeqsUpTo(S, n) == UNION {[1..k -> S] : k \in 0..n}

RECURSIVE SumLen(_)
SumLen(ss) == IF ss = <<>> THEN 0 ELSE Len(Head(ss)) + SumLen(Tail(ss))

\* the enumerations of a finite set: what iterating a Python set may produce
Enumerations(S) ==
    {f \in [1..Cardinality(S) -> S] : \A x, y \in DOMAIN f : f[x] = f[y] => x = y}

Prefixes(s) == {SubSeq(s, 1, k) : k \in 0..Len(s)}

\* the input file lists of a run
FileLists ==
    {fl \in SeqsUpTo(SeqsUpTo(Alphabet, MaxCorpusLen), MaxFiles) :
        SumLen(fl) <= MaxCorpusLen}

(* --------------------- lines 30-36: text and vocabulary ---------------- *)

\* "\n".join(...)
RECURSIVE Join(_, _)
Join(sep, parts) ==
    IF parts = <<>> THEN <<>>
    ELSE IF Len(parts) = 1 THEN Head(parts)
    ELSE Head(parts) \o sep \o Join(sep, Tail(parts))

\* set(full_text)
CharSet(text) == Range(text)

\* an off-by-one in the first content index
CharIndicesFrom2(n) == [k \in 1..n |-> k + 1]

\* range(3, len(chars)+3)
CharIndices(n) == [k \in 1..n |-> k + 2]

\* zip(xs, ys): pairs up to the shorter one
Zip(xs, ys) == [k \in 1..Min2(Len(xs), Len(ys)) |-> <<xs[k], ys[k]>>]

\* dict(pairs): a later pair with the same key wins
Dict(pairs) ==
    [key \in {p[1] : p \in Range(pairs)} |->
        LET last == CHOOSE k \in DOMAIN pairs :
                        /\ pairs[k][1] = key
                        /\ \A m \in DOMAIN pairs : pairs[m][1] = key => m <= k
        IN  pairs[last][2]]

\* d[key] = val
DictSet(d, key, val) ==
    [x \in DOMAIN d \cup {key} |-> IF x = key THEN val ELSE d[x]]

\* lines 33-36, for one iteration order of the set chars
MakeVocab(order) ==
    DictSet(DictSet(DictSet(Dict(Zip(order, CharIndices(Len(order)))),
                            "<PAD>", 0), "<S>", 1), "</S>", 2)

(* ------------------- lines 79-108: text to sequences ------------------- *)

\* re.split for a literal delimiter d: the leftmost occurrences from left
\* to right, each search starting where the previous occurrence ended;
\* from is where the current piece starts, pos where the search stands
RECURSIVE SplitFrom(_, _, _, _)
SplitFrom(d, text, from, pos) ==
    IF pos + Len(d) - 1 > Len(text)
    THEN <<SubSeq(text, from, Len(text))>>
    ELSE IF SubSeq(text, pos, pos + Len(d) - 1) = d
    THEN <<SubSeq(text, from, pos - 1)>>
            \o SplitFrom(d, text, pos + Len(d), pos + Len(d))
    ELSE SplitFrom(d, text, from, pos + 1)

\* a split that drops the empty pieces, as str.split() without argument does
ReSplitNoEmpty(d, text) == SelectSeq(SplitFrom(d, text, 1, 1), LAMBDA p : p # <<>>)

\* a split that yields no piece at all for the empty text
ReSplitEmptyToNone(d, text) ==
    IF text = <<>> THEN <<>> ELSE SplitFrom(d, text, 1, 1)

\* re.split(regex, text)
ReSplit(d, text) == SplitFrom(d, text, 1, 1)

\* chs_to_inds: [mapping[ch] for ch in char_list]
chs_to_inds(char_list, mapping) ==
    [k \in DOMAIN char_list |-> mapping[char_list[k]]]

\* the end marker forgotten
text_to_seqs_no_end(text, regex, mapping) ==
    LET split == ReSplit(regex, text)
    IN  [k \in DOMAIN split |-> <<mapping["<S>"]>> \o chs_to_inds(split[k], mapping)]

\* text_to_seqs
text_to_seqs(text, regex, mapping) ==
    LET split == ReSplit(regex, text)
    IN  [k \in DOMAIN split |->
            <<mapping["<S>"]>> \o chs_to_inds(split[k], mapping)
                \o <<mapping["</S>"]>>]

\* mapping[ch] raises KeyError for a character the mapping lacks
LookupFails(text, mapping) == \E k \in DOMAIN text : text[k] \notin DOMAIN mapping

(* ------------------------- lines 42-50: filters ------------------------ *)

\* max() given a default
MaxNeverRaises(ss) == FALSE

\* max(len(seq) for seq in seqs) raises ValueError on an empty list
MaxRaises(ss) == ss = <<>>

\* the comparison written <=
LenFilterLe(ss, k) == SelectSeq(ss, LAMBDA s : Len(s) <= k)

\* [seq for seq in seqs if len(seq) < maxlen]
LenFilter(ss, k) == SelectSeq(ss, LAMBDA s : Len(s) < k)

\* [seq for seq in seqs if len(seq) > 0]
Len0Filter(ss) == SelectSeq(ss, LAMBDA s : Len(s) > 0)

(* ------------------ lines 55-58, 111-124: the records ------------------ *)

\* tf.train.Example(features={"seq": Int64List(value=seq)}), serialized: the
\* feature map of the record, one key
SerializeExample(seq) == [seq |-> [int64_list |-> seq]]

\* tf.io.parse_single_example with VarLenFeature: the sparse tensor of the
\* feature named key, empty when the record has no such feature
VarLenFeature(record, key) ==
    IF key \in DOMAIN record
    THEN LET vals == record[key].int64_list
         IN  [indices |-> [k \in 1..Len(vals) |-> k - 1],
              values |-> vals,
              dense_shape |-> Len(vals)]
    ELSE [indices |-> <<>>, values |-> <<>>, dense_shape |-> 0]

\* tf.sparse.to_dense: the values at their indices, 0 elsewhere
ToDense(sp) ==
    [k \in 1..sp.dense_shape |->
        IF \E m \in DOMAIN sp.indices : sp.indices[m] = k - 1
        THEN sp.values[CHOOSE m \in DOMAIN sp.indices : sp.indices[m] = k - 1]
        ELSE 0]

\* tf.cast(x, tf.int32) of an int64: wraps above the int32 range
CastInt32(v) == IF v <= Int32Max THEN v ELSE v - Int32Max - Int32Max - 2

\* the feature looked up under another name than the writer's
parse_seq_other_key(example_proto) ==
    LET dense == ToDense(VarLenFeature(example_proto, "seqs"))
    IN  [k \in DOMAIN dense |-> CastInt32(dense[k])]

\* parse_seq
parse_seq(example_proto) ==
    LET dense == ToDense(VarLenFeature(example_proto, "seq"))
    IN  [k \in DOMAIN dense |-> CastInt32(dense[k])]

(* ------------------------------- state --------------------------------- *)

VARIABLES
    files,        \* argument: the contents of the files named, in order
    regex,        \* argument: the delimiter
    maxlen,       \* argument
    pc,           \* where the run stands
    contents,     \* what open(file).read() has returned so far
    unreadable,   \* some open(file).read() has failed
    full_text,    \* line 30
    ch_to_ind,    \* lines 33-36
    seqs0,        \* what text_to_seqs returned at line 38
    seqs,         \* the variable seqs, reassigned at lines 45 and 50
    ind,          \* the write loop has dealt with seqs[1..ind]
    rec_state,    \* out_path.tfrecords: "absent", "open" or "closed"
    tfrecords,    \* the records of out_path.tfrecords
    vocab_state,  \* out_path_vocab: "absent", "created" or "written"
    vocab_file,   \* the mapping pickled into out_path_vocab
    err,          \* the exception that ended the run, or "none"
    err_at,       \* the pc at which it was raised
    readback      \* what the consumer has parsed of the records file so far

vars == <<files, regex, maxlen, pc, contents, unreadable, full_text, ch_to_ind,
          seqs0, seqs, ind, rec_state, tfrecords, vocab_state, vocab_file,
          err, err_at, readback>>

inputs == <<files, regex, maxlen>>

outputs == <<rec_state, tfrecords, vocab_state, vocab_file>>

Init ==
    /\ files \in FileLists
    /\ regex \in Delimiters
    /\ maxlen \in -1..MaxLenArg
    /\ pc = "read"
    /\ contents = <<>>
    /\ unreadable = FALSE
    /\ full_text = <<>>
    /\ ch_to_ind = <<>>
    /\ seqs0 = <<>>
    /\ seqs = <<>>
    /\ ind = 0
    /\ rec_state = "absent"
    /\ tfrecords = <<>>
    /\ vocab_state = "absent"
    /\ vocab_file = <<>>
    /\ err = "none"
    /\ err_at = "none"
    /\ readback = <<>>

\* an exception leaves files_to_tfrecord_dynamic
Raise(kind) ==
    /\ pc' = "aborted"
    /\ err' = kind
    /\ err_at' = pc


(* ------------------- files_to_tfrecord_dynamic, by step ---------------- *)

\* line 30, one file: open(file).read() returns the file's content
ReadFile ==
    /\ pc = "read"
    /\ Len(contents) < Len(files)
    /\ contents' = Append(contents, files[Len(contents) + 1])
    /\ UNCHANGED <<inputs, pc, unreadable, full_text, ch_to_ind, seqs0, seqs,
                   ind, outputs, err, err_at, readback>>

\* the error swallowed and the file taken as empty
ReadFailSwallowed ==
    /\ pc = "read"
    /\ Len(contents) < Len(files)
    /\ unreadable' = TRUE
    /\ contents' = Append(contents, <<>>)
    /\ UNCHANGED <<inputs, pc, full_text, ch_to_ind, seqs0, seqs, ind, outputs,
                   err, err_at, readback>>

\* line 30, one file: open(file) or read() raises, and nothing catches it
ReadFail ==
    /\ pc = "read"
    /\ Len(contents) < Len(files)
    /\ unreadable' = TRUE
    /\ Raise("IOError")
    /\ UNCHANGED <<inputs, contents, full_text, ch_to_ind, seqs0, seqs, ind,
                   outputs, readback>>

\* line 30, once the generator is exhausted: the join
JoinText ==
    /\ pc = "read"
    /\ Len(contents) = Len(files)
    /\ full_text' = Join(<<"\n">>, contents)
    /\ pc' = "vocab"
    /\ UNCHANGED <<inputs, contents, unreadable, ch_to_ind, seqs0, seqs, ind,
                   outputs, err, err_at, readback>>

\* lines 32-36: the set is iterated in some order
BuildVocab ==
    /\ pc = "vocab"
    /\ \E order \in Enumerations(CharSet(full_text)) :
           ch_to_ind' = MakeVocab(order)
    /\ pc' = "split"
    /\ UNCHANGED <<inputs, contents, unreadable, full_text, seqs0, seqs, ind,
                   outputs, err, err_at, readback>>

\* line 38
TextToSeqs ==
    /\ pc = "split"
    /\ IF LookupFails(full_text, ch_to_ind)
       THEN /\ Raise("KeyError")
            /\ UNCHANGED <<seqs0, seqs>>
       ELSE /\ seqs0' = text_to_seqs(full_text, regex, ch_to_ind)
            /\ seqs' = seqs0'
            /\ pc' = "report"
            /\ UNCHANGED <<err, err_at>>
    /\ UNCHANGED <<inputs, contents, unreadable, full_text, ch_to_ind, ind,
                   outputs, readback>>

\* lines 39-42: the longest sequence is reported
ReportLongest ==
    /\ pc = "report"
    /\ IF MaxRaises(seqs)
       THEN Raise("ValueError")
       ELSE /\ pc' = "filter"
            /\ UNCHANGED <<err, err_at>>
    /\ UNCHANGED <<inputs, contents, unreadable, full_text, ch_to_ind, seqs0,
                   seqs, ind, outputs, readback>>

\* lines 43-48: the length filter and the report of what is left
FilterMaxlen ==
    /\ pc = "filter"
    /\ IF maxlen # 0
       THEN /\ seqs' = LenFilter(seqs, maxlen)
            /\ IF MaxRaises(seqs')
               THEN Raise("ValueError")
               ELSE /\ pc' = "len0"
                    /\ UNCHANGED <<err, err_at>>
       ELSE /\ pc' = "len0"
            /\ UNCHANGED <<seqs, err, err_at>>
    /\ UNCHANGED <<inputs, contents, unreadable, full_text, ch_to_ind, seqs0,
                   ind, outputs, readback>>

\* lines 49-51
FilterLen0 ==
    /\ pc = "len0"
    /\ seqs' = Len0Filter(seqs)
    /\ pc' = "open"
    /\ UNCHANGED <<inputs, contents, unreadable, full_text, ch_to_ind, seqs0,
                   ind, outputs, err, err_at, readback>>

\* line 53: the writer creates (or truncates) out_path.tfrecords
OpenWriter ==
    /\ pc = "open"
    /\ rec_state' = "open"
    /\ tfrecords' = <<>>
    /\ ind' = 0
    /\ pc' = "write"
    /\ UNCHANGED <<inputs, contents, unreadable, full_text, ch_to_ind, seqs0,
                   seqs, vocab_state, vocab_file, err, err_at, readback>>

\* lines 54-58, one iteration
WriteRecord ==
    /\ pc = "write"
    /\ ind < Len(seqs)
    /\ tfrecords' = Append(tfrecords, SerializeExample(seqs[ind + 1]))
    /\ ind' = ind + 1
    /\ UNCHANGED <<inputs, pc, contents, unreadable, full_text, ch_to_ind,
                   seqs0, seqs, rec_state, vocab_state, vocab_file, err, err_at,
                   readback>>

\* line 58 raises (the disk is full, say): the with statement closes the
\* writer and the exception goes on to the caller
WriteFail ==
    /\ pc = "write"
    /\ ind < Len(seqs)
    /\ rec_state' = "closed"
    /\ Raise("WriteError")
    /\ UNCHANGED <<inputs, contents, unreadable, full_text, ch_to_ind, seqs0,
                   seqs, ind, tfrecords, vocab_state, vocab_file, readback>>

\* the end of the with block at line 53: the writer is flushed and closed
CloseWriter ==
    /\ pc = "write"
    /\ ind = Len(seqs)
    /\ rec_state' = "closed"
    /\ pc' = "dump"
    /\ UNCHANGED <<inputs, contents, unreadable, full_text, ch_to_ind, seqs0,
                   seqs, ind, tfrecords, vocab_state, vocab_file, err, err_at,
                   readback>>

\* the dump indented into the with block: the vocabulary file is opened
\* while the writer is still open
OpenVocabInsideWith ==
    /\ pc = "write"
    /\ ind = Len(seqs)
    /\ vocab_state = "absent"
    /\ vocab_state' = "created"
    /\ UNCHANGED <<inputs, pc, contents, unreadable, full_text, ch_to_ind,
                   seqs0, seqs, ind, rec_state, tfrecords, vocab_file, err,
                   err_at, readback>>

\* line 61, the argument: open(out_path + "_vocab", mode="wb")
OpenVocab ==
    /\ pc = "dump"
    /\ vocab_state' = "created"
    /\ pc' = "pickle"
    /\ UNCHANGED <<inputs, contents, unreadable, full_text, ch_to_ind, seqs0,
                   seqs, ind, rec_state, tfrecords, vocab_file, err, err_at,
                   readback>>

\* line 61, the call: pickle.dump(ch_to_ind, ...); the function returns
PickleDump ==
    /\ pc = "pickle"
    /\ vocab_state' = "written"
    /\ vocab_file' = ch_to_ind
    /\ pc' = "done"
    /\ UNCHANGED <<inputs, contents, unreadable, full_text, ch_to_ind, seqs0,
                   seqs, ind, rec_state, tfrecords, err, err_at, readback>>

\* the process is killed: an open writer is never closed, and of what it
\* has been given only some prefix has reached the file
Crash ==
    /\ pc \notin {"done", "aborted", "crashed"}
    /\ pc' = "crashed"
    /\ tfrecords' \in (IF rec_state = "open" THEN Prefixes(tfrecords) ELSE {tfrecords})
    /\ UNCHANGED <<inputs, contents, unreadable, full_text, ch_to_ind, seqs0,
                   seqs, ind, rec_state, vocab_state, vocab_file, err, err_at,
                   readback>>

\* the consumer, after a run that completed: the next record of the file
\* goes through parse_seq
ReadRecord ==
    /\ pc = "done"
    /\ Len(readback) < Len(tfrecords)
    /\ readback' = Append(readback, parse_seq(tfrecords[Len(readback) + 1]))
    /\ UNCHANGED <<inputs, pc, contents, unreadable, full_text, ch_to_ind,
                   seqs0, seqs, ind, outputs, err, err_at>>

Next ==
    \/ ReadFile
    \/ ReadFail
    \/ JoinText
    \/ BuildVocab
    \/ TextToSeqs
    \/ ReportLongest
    \/ FilterMaxlen
    \/ FilterLen0
    \/ OpenWriter
    \/ WriteRecord
    \/ WriteFail
    \/ CloseWriter
    \/ OpenVocab
    \/ PickleDump
    \/ Crash
    \/ ReadRecord

Spec == Init /\ [][Next]_vars


(* ----------------------- where a run has got to ------------------------ *)

\* the statement the run is at, or was at when an exception left it; a
\* killed process does not tell
At == IF pc = "aborted" THEN err_at ELSE pc

\* line 38 has assigned seqs
SplitDone ==
    At \in {"report", "filter", "len0", "open", "write", "dump", "pickle", "done"}

\* lines 43-48 have been gone through, up to the max at line 48
FilterRan ==
    \/ At \in {"len0", "open", "write", "dump", "pickle", "done"}
    \/ pc = "aborted" /\ err_at = "filter"

Reserved == {"<PAD>", "<S>", "</S>"}

START == 1

END == 2

FirstContent == 3

\* what the records file holds once every sequence of seqs is written
Serialized(ss) == [k \in DOMAIN ss |-> SerializeExample(ss[k])]

(* -------------------------------- C1 ----------------------------------- *)

\* C1: once the vocabulary is built, every character of every input file,
\* and the newline joining two files, is a key of it; "<PAD>", "<S>" and
\* "</S>" map to 0, 1 and 2; every other key maps to an index >= 3; no two
\* keys share an index; the indices are exactly 0 .. |vocab|-1.
C1_Vocabulary ==
    DOMAIN ch_to_ind # {} =>
        /\ \A f \in Range(files) : \A c \in Range(f) : c \in DOMAIN ch_to_ind
        /\ Len(files) >= 2 => "\n" \in DOMAIN ch_to_ind
        /\ \A c \in Range(full_text) : c \in DOMAIN ch_to_ind
        /\ ch_to_ind["<PAD>"] = 0
        /\ ch_to_ind["<S>"] = START
        /\ ch_to_ind["</S>"] = END
        /\ \A c \in DOMAIN ch_to_ind \ Reserved : ch_to_ind[c] >= FirstContent
        /\ \A c, e \in DOMAIN ch_to_ind : ch_to_ind[c] = ch_to_ind[e] => c = e
        /\ {ch_to_ind[c] : c \in DOMAIN ch_to_ind}
               = 0 .. Cardinality(DOMAIN ch_to_ind) - 1

\* a completed run on two files whose text has three distinct characters
C1_Witness ==
    /\ pc = "done"
    /\ Len(files) = 2
    /\ Cardinality(DOMAIN vocab_file) = 6

(* -------------------------------- C2 ----------------------------------- *)

WellFormed(s) ==
    /\ Len(s) >= 2
    /\ s[1] = START
    /\ s[Len(s)] = END
    /\ \A k \in 2 .. Len(s) - 1 : s[k] >= FirstContent

\* C2: every sequence text_to_seqs returned, every sequence left after the
\* filters and every sequence held by a written record starts with 1, ends
\* with 2, has only indices >= 3 in between, and so has length >= 2.
C2_Boundary ==
    \A s \in Range(seqs0) \cup Range(seqs)
                \cup {r.seq.int64_list : r \in Range(tfrecords)} : WellFormed(s)

\* a completed run that wrote an empty-content sequence and one with content
C2_Witness ==
    /\ pc = "done"
    /\ \E r \in Range(tfrecords) : r.seq.int64_list = <<START, END>>
    /\ \E r \in Range(tfrecords) : Len(r.seq.int64_list) >= 4

(* -------------------------------- C3 ----------------------------------- *)

\* kept holds orig's entries at the positions in I, and no others, in
\* orig's order
KeptExactly(orig, kept, I) ==
    /\ Len(kept) = Cardinality(I)
    /\ \A k \in I : kept[Cardinality({m \in I : m <= k})] = orig[k]

C4_Docstring ==
    (FilterRan /\ maxlen > 0) =>
        \A k \in DOMAIN seqs0 :
            Len(seqs0[k]) - 2 <= maxlen => seqs0[k] \in Range(seqs)

(* -------------------------------- C5 ----------------------------------- *)

\* the characters a sequence stands for, its two markers stripped
Decode(s, mapping) ==
    [k \in 1 .. Len(s) - 2 |-> CHOOSE c \in DOMAIN mapping : mapping[c] = s[k + 1]]

\* d occurs in t at position p
Occurs(d, t, p) == p + Len(d) - 1 <= Len(t) /\ SubSeq(t, p, p + Len(d) - 1) = d

\* pieces are the substrings of text between the non-overlapping
\* occurrences of d taken from the left: joined by d they give text back,
\* each piece but the last ends at the first occurrence of d after its
\* start, and the last holds no occurrence
SplitsAt(pieces, text, d) ==
    /\ Len(pieces) >= 1
    /\ Join(d, pieces) = text
    /\ \A k \in 1 .. Len(pieces) - 1 :
           \A p \in 1 .. Len(pieces[k]) : ~Occurs(d, pieces[k] \o d, p)
    /\ \A p \in 1 .. Len(pieces[Len(pieces)]) : ~Occurs(d, pieces[Len(pieces)], p)

\* C5: the sequences text_to_seqs returns, decoded, are the substrings of
\* the text between the occurrences of the delimiter, in text order, one
\* more than there are occurrences, none holding the delimiter; without a
\* length filter all of them, the empty ones too, are kept and written.
C5_Split ==
    SplitDone =>
        /\ SplitsAt([k \in DOMAIN seqs0 |-> Decode(seqs0[k], ch_to_ind)],
                    full_text, regex)
        /\ (maxlen = 0 /\ At \in {"open", "write", "dump", "pickle", "done"})
               => seqs = seqs0
        /\ (maxlen = 0 /\ pc = "done") => Len(tfrecords) = Len(seqs0)

\* a completed run without length filter whose text starts with a
\* delimiter and holds two in a row
C5_Witness ==
    /\ pc = "done"
    /\ maxlen = 0
    /\ regex = <<",">>
    /\ full_text = <<",", ",", "a">>
    /\ Len(tfrecords) = 3

(* -------------------------------- C6 ----------------------------------- *)

\* C6: after a completed run the records file holds as many records as
\* sequences survived the filters, and parse_seq gives, record by record
\* from the first, the sequence the record was written from.
C6_RoundTrip ==
    pc = "done" =>
        /\ Len(tfrecords) = Len(seqs)
        /\ Len(readback) <= Len(seqs)
        /\ \A k \in DOMAIN readback : readback[k] = seqs[k]

\* the whole file read back, after a run whose length filter removed a
\* sequence and left two
C6_Witness ==
    /\ pc = "done"
    /\ Len(readback) = Len(seqs)
    /\ Len(seqs) < Len(seqs0)
    /\ Len(seqs) >= 2

(* -------------------------------- C7 ----------------------------------- *)

\* C7: once a file could not be opened or read, the run has ended with
\* that error and neither output file exists.
C7_ReadError ==
    unreadable =>
        /\ pc = "aborted"
        /\ err = "IOError"
        /\ rec_state = "absent"
        /\ vocab_state = "absent"

\* the second file fails after the first was read
C7_Witness ==
    /\ unreadable
    /\ Len(contents) = 1
    /\ Len(files) = 2

(* -------------------------------- C8 ----------------------------------- *)

\* the concatenated text is empty: no file, or one empty file
EmptyCorpus == Join(<<"\n">>, files) = <<>>

\* C8 as stated: a run on an empty corpus with maxlen = 0 that gets to the
\* report of the longest sequence ends there with the ValueError of max.
C8_Original ==
    (EmptyCorpus /\ maxlen = 0 /\ SplitDone /\ pc # "report") =>
        /\ pc = "aborted"
        /\ err = "ValueError"
        /\ rec_state = "absent"

\* C8 amended: on an empty corpus with maxlen = 0 the split yields the one
\* sequence [START, END], max raises nothing, and a run that completes has
\* written that one record and a vocabulary of the three reserved entries.
C8_EmptyCorpus ==
    (EmptyCorpus /\ maxlen = 0) =>
        /\ err # "ValueError"
        /\ SplitDone => seqs0 = << <<START, END>> >>
        /\ pc = "done" =>
               /\ rec_state = "closed"
               /\ tfrecords = <<SerializeExample(<<START, END>>)>>
               /\ vocab_state = "written"
               /\ DOMAIN vocab_file = Reserved

\* a completed run on one empty file, its record read back
C8_Witness ==
    /\ files = << <<>> >>
    /\ maxlen = 0
    /\ pc = "done"
    /\ readback = << <<START, END>> >>

(* -------------------------------- C9 ----------------------------------- *)

\* C9: the records file always holds the records of a prefix of the
\* surviving sequences, in order (while the writer is open, of the ind
\* sequences written so far); and whenever the vocabulary file exists, the
\* records file is closed and holds a record for every surviving sequence.
C9_WriteOrder ==
    /\ rec_state # "absent" => tfrecords \in Prefixes(Serialized(seqs))
    /\ (rec_state = "open" /\ pc # "crashed") => Len(tfrecords) = ind
    /\ vocab_state # "absent" =>
           /\ rec_state = "closed"
           /\ tfrecords = Serialized(seqs)

\* the process killed between the creation of the vocabulary file and the
\* dump, after two records
C9_Witness ==
    /\ pc = "crashed"
    /\ vocab_state = "created"
    /\ Len(tfrecords) >= 2

(* -------------------------------- C10 ---------------------------------- *)

\* every sequence is at least maxlen long
AllTooLong == \A s \in Range(seqs0) : Len(s) >= maxlen

=============================================================================
